---- MODULE Spec2Model ----
(***************************************************************************)
(* Model of Source/Core/Core/WiiUtils.cpp: the direct WAD installer        *)
(* (InstallWAD) and the online system updater (DoOnlineUpdate and the      *)
(* recursive InstallTitleFromNUS).  Every call to a collaborator (ES       *)
(* secure storage, HTTP, prompt, progress callback) is one step; the       *)
(* outcome of the call is chosen nondeterministically and recorded in      *)
(* `history`.                                                              *)
(***************************************************************************)
EXTENDS Integers, Sequences, FiniteSets, Bags, TLC

\* ---------------------------------------------------------------- bounds
MaxTitles == 2      \* longest server title list
MaxVersion == 2     \* the newest title version
NumContents == 2    \* content entries per TMD, content ids 1..NumContents
MaxDepth == 3       \* deepest InstallTitleFromNUS recursion explored
MaxAttempts == 3    \* ticket/init attempts explored in InstallWAD
MaxTmdContents == 2 \* largest content count that fits a TMD response explored
Recent == 4         \* how many of the latest collaborator calls are kept in order

\* ------------------------------------------------------------- title ids
\* A 64-bit title id is the pair <<upper 32 bits, lower 32 bits>>.
TitleTypeSystem == 1
BOOT2 == <<1, 1>>
SYSTEM_MENU == <<1, 2>>
IOS58 == <<1, 58>>
CHANNEL == <<65537, 1>>
NoIOS == <<0, 0>>

IsTitleType(title_id, type) == title_id[1] = type

ListIds == {BOOT2, SYSTEM_MENU, IOS58}
StoredIds == {BOOT2, SYSTEM_MENU, IOS58, CHANNEL}
IosChoices == {NoIOS, SYSTEM_MENU, IOS58, CHANNEL, BOOT2}
Versions == {1, MaxVersion}
NotInstalled == -1
ContentIds == 1..NumContents

\* the entries a server list is drawn from
TitleInfo == {[id |-> BOOT2, version |-> MaxVersion],
              [id |-> IOS58, version |-> MaxVersion]}
               \cup [id : {SYSTEM_MENU}, version : Versions]
\* the title carried by the WAD file given to InstallWAD
WadTitle == [id |-> CHANNEL, version |-> MaxVersion]

\* UpdateResult
Succeeded == "Succeeded"
AlreadyUpToDate == "AlreadyUpToDate"
Cancelled == "Cancelled"
ServerFailed == "ServerFailed"
DownloadFailed == "DownloadFailed"
ImportFailed == "ImportFailed"
NoResult == "none"

\* IOS::HLE::ReturnCode
IPC_SUCCESS == 0
IOSC_FAIL_CHECKVALUE == -1012
ES_EINVAL == -1017
ReturnCodes == {IPC_SUCCESS, IOSC_FAIL_CHECKVALUE, ES_EINVAL}

VARIABLES
  op,               \* entry point invoked: "wad" or "update"
  response,         \* what the NUS answers to the GetSystemUpdate request
  download,         \* a DownloadTMD call: the HTTP response and the pair returned
  installed,        \* ES: version of the installed TMD per title, or NotInstalled
  stored,           \* ES: content ids present in storage per title
  flag,             \* SConfig::m_enable_signature_checks
  cache_clears,     \* number of NANDContentManager::ClearCache calls
  history,          \* collaborator calls made so far: .calls counts them per
                    \* <<call, title, outcome>>, .recent keeps the latest in order
  titles,           \* info.titles
  pc,               \* position in DoOnlineUpdate
  processed,        \* processed
  updated_titles,   \* updated_titles
  stack,            \* InstallTitleFromNUS activations, outermost first
  result,           \* value returned by DoOnlineUpdate / InstallWAD
  wad,              \* locals of InstallWAD
  entry_flag        \* m_enable_signature_checks when the entry point was called

vars == <<op, response, download, installed, stored, flag, cache_clears, history, titles, pc,
          processed, updated_titles, stack, result, wad, entry_flag>>

esVars == <<installed, stored>>

Event(k, t, a, ok) == [k |-> k, t |-> t, a |-> a, ok |-> ok]
Latest(seq) == IF Len(seq) > Recent THEN SubSeq(seq, Len(seq) - Recent + 1, Len(seq))
                                    ELSE seq
Log(k, t, a, ok) ==
  history' = [calls |-> history.calls (+) SetToBag({<<k, t, ok>>}),
              recent |-> Latest(Append(history.recent, Event(k, t, a, ok)))]

\* ------------------------------------------------------------ ES storage
FindInstalledTMD(title_id) == installed[title_id]
IsValid(tmd) == tmd # NotInstalled
\* every TMD of the model declares the contents 1..NumContents
GetNumContents(tmd) == NumContents
GetStoredContents(title_id) == stored[title_id] \cap ContentIds
\* the version carried by the TMD served for a request (0 asks for the latest)
ServedVersion(version) == IF version = 0 THEN MaxVersion ELSE version

\* a check that looks at the version only
ShouldInstallTitle_VersionOnly(title) ==
  LET installed_tmd == FindInstalledTMD(title.id)
  IN ~(IsValid(installed_tmd) /\ installed_tmd >= title.version)

\* lines 147-153
ShouldInstallTitle(title) ==
  LET installed_tmd == FindInstalledTMD(title.id)
  IN ~(IsValid(installed_tmd) /\ installed_tmd >= title.version
       /\ Cardinality(GetStoredContents(title.id)) = GetNumContents(installed_tmd))

\* ------------------------------------------------- Remote catalog client
\* A catalog answer: whether the HTTP POST returned a body, whether the body
\* parses as XML, whether it has a GetSystemUpdateResponse node, its ErrorCode,
\* its ContentPrefixURL and its TitleVersion entries.
ServerUrl == "https://nus.cdn"
CachedUrl == "http://nus.cdn"
TitleLists(n) == UNION {[1..m -> TitleInfo] : m \in 0..n}
IsWellFormed(r) == r.http /\ r.xml /\ r.node /\ r.code = 0 /\ r.url # ""
\* every answer with a list of up to MaxTitles entries, the broken answers
\* with a list of at most one entry
Responses ==
  {r \in [http : BOOLEAN, xml : BOOLEAN, node : BOOLEAN, code : {0, 1},
          url : {"", ServerUrl}, titles : TitleLists(MaxTitles)] :
     ~IsWellFormed(r) => Len(r.titles) <= 1}
NoResponse ==
  [http |-> FALSE, xml |-> FALSE, node |-> FALSE, code |-> 0, url |-> "",
   titles |-> <<>>]
\* the value-initialised Response of `return {}`
EmptyInfo == [content_prefix_url |-> "", titles |-> <<>>]

\* line 223: ReplaceAll(url, "https://", "http://")
ReplaceAll(url) == IF url = ServerUrl THEN CachedUrl ELSE url

\* a parser that does not read ErrorCode
ParseTitlesResponse_AnyCode(r) ==
  IF ~r.xml THEN EmptyInfo
  ELSE IF ~r.node THEN EmptyInfo
  ELSE IF ReplaceAll(r.url) = "" THEN EmptyInfo
  ELSE [content_prefix_url |-> ReplaceAll(r.url), titles |-> r.titles]

\* lines 192-237
ParseTitlesResponse(r) ==
  IF ~r.xml THEN EmptyInfo
  ELSE IF ~r.node THEN EmptyInfo
  ELSE IF r.code # 0 THEN EmptyInfo
  ELSE IF ReplaceAll(r.url) = "" THEN EmptyInfo
  ELSE [content_prefix_url |-> ReplaceAll(r.url), titles |-> r.titles]

\* lines 277-287
GetSystemTitles(r) == IF ~r.http THEN EmptyInfo ELSE ParseTitlesResponse(r)

\* ------------------------------------------------------------ DownloadTMD
\* IOS::ES::TMDHeader and IOS::ES::Content are packed structs of the Wii TMD
\* format: a header of 0x1E4 bytes whose big-endian u16 num_contents is at
\* offset 0x1DE, followed by content entries of 0x24 bytes each.
TMDHeaderSize == 484
ContentSize == 36
NumContentsOffset == 478
MaxResponseSize == TMDHeaderSize + ContentSize * MaxTmdContents + 2

\* Common::swap16 on two bytes in memory: the big-endian 16-bit value
swap16(hi, lo) == (hi * 256 + lo) % 65536

\* An HTTP response to the TMD request: absent, or a body of `size` bytes
\* whose bytes at offsets 0x1DE and 0x1DF (where it has them) are hi and lo.
NoBody == [body |-> FALSE, size |-> 0, hi |-> 0, lo |-> 0]
TmdResponses ==
  {NoBody} \cup [body : {TRUE}, size : 0..MaxResponseSize, hi : {0, 1},
                 lo : 0..(MaxTmdContents + 1)]

\* the value-initialised pair of `return {}`; read_end is the end of the
\* last byte range of the response that was read
InvalidTMD(read_end) ==
  [valid |-> FALSE, tmd_begin |-> 0, tmd_end |-> 0, certs_begin |-> 0,
   certs_end |-> 0, read_end |-> read_end]

\* TMDReader::IsValid: the bytes hold a header and exactly the declared entries
TMDReaderIsValid(size, num_contents) ==
  size >= TMDHeaderSize /\ size = TMDHeaderSize + num_contents * ContentSize

\* a download that trusts the declared content count
DownloadTMD_NoCountCheck(r) ==
  IF ~r.body THEN InvalidTMD(0)
  ELSE IF r.size <= TMDHeaderSize THEN InvalidTMD(0)
  ELSE LET num_contents == swap16(r.hi, r.lo)
           tmd_size == TMDHeaderSize + ContentSize * num_contents
       IN [valid |-> TMDReaderIsValid(tmd_size, num_contents),
           tmd_begin |-> 0, tmd_end |-> tmd_size,
           certs_begin |-> tmd_size, certs_end |-> r.size,
           read_end |-> r.size]

\* lines 446-464
DownloadTMD(r) ==
  IF ~r.body THEN InvalidTMD(0)
  ELSE IF r.size <= TMDHeaderSize THEN InvalidTMD(0)
  ELSE LET num_contents == swap16(r.hi, r.lo)
           tmd_size == TMDHeaderSize + ContentSize * num_contents
       IN IF r.size <= tmd_size THEN InvalidTMD(NumContentsOffset + 2)
          ELSE [valid |-> TMDReaderIsValid(tmd_size, num_contents),
                tmd_begin |-> 0, tmd_end |-> tmd_size,
                certs_begin |-> tmd_size, certs_end |-> r.size,
                read_end |-> r.size]

NoDownload == [pc |-> "none", response |-> NoBody, tmd |-> InvalidTMD(0)]

\* ------------------------------------------------------------------ Init
\* what the NAND holds of a title before the run: nothing, an old version
\* with or without all of its contents, or the newest version
InitialTitles ==
  {[version |-> NotInstalled, contents |-> {}],
   [version |-> 1, contents |-> {1}],
   [version |-> 1, contents |-> ContentIds],
   [version |-> MaxVersion, contents |-> ContentIds]}
InitWadLocals ==
  [pc |-> "start", checks_enabled |-> TRUE, ret |-> IPC_SUCCESS,
   context |-> "none", fin |-> 0, ci |-> 1, contents_imported |-> TRUE,
   attempts |-> 0, prompts |-> 0]

InitES ==
  \E sm \in InitialTitles, ios \in {t \in InitialTitles : t.version # 1} :
    /\ installed = [t \in StoredIds |->
                      IF t = SYSTEM_MENU THEN sm.version
                      ELSE IF t = IOS58 THEN ios.version ELSE NotInstalled]
    /\ stored = [t \in StoredIds |->
                   IF t = SYSTEM_MENU THEN sm.contents
                   ELSE IF t = IOS58 THEN ios.contents ELSE {}]

InitUpdate ==
  /\ op = "update"
  /\ InitES
  /\ flag = TRUE
  /\ response \in Responses
  /\ titles = <<>>
  /\ pc = "start"
  /\ wad = InitWadLocals

InitWAD ==
  /\ op = "wad"
  /\ installed = [t \in StoredIds |-> NotInstalled]
  /\ stored = [t \in StoredIds |-> {}]
  /\ flag \in BOOLEAN
  /\ response = NoResponse
  /\ titles = <<>>
  /\ pc = "idle"
  /\ wad = InitWadLocals

Init ==
  /\ (InitUpdate \/ InitWAD)
  /\ download = NoDownload
  /\ entry_flag = flag
  /\ cache_clears = 0
  /\ history = [calls |-> EmptyBag, recent |-> <<>>]
  /\ processed = 0
  /\ updated_titles = {}
  /\ stack = <<>>
  /\ result = NoResult

\* ------------------------------------------------- InstallTitleFromNUS
\* an activation that holds a context from its entry on
Frame_Open(title) ==
  [title |-> title, pc |-> "entry", ios_id |-> NoIOS, context |-> "open",
   ci |-> 1, stored_contents |-> {}, import_result |-> Succeeded]

\* lines 325-327: an activation at its entry; no context exists before line 380
Frame(title) ==
  [title |-> title, pc |-> "entry", ios_id |-> NoIOS, context |-> "none",
   ci |-> 1, stored_contents |-> {}, import_result |-> Succeeded]

Top == stack[Len(stack)]
SetTop(f) == stack' = [stack EXCEPT ![Len(stack)] = f]
At(p) == op = "update" /\ pc = "install" /\ stack # <<>> /\ Top.pc = p

\* a check that lets a failed download pass
Aborts_ImportOnly(res) == res = ImportFailed

\* line 307: any result other than Succeeded aborts the run
Aborts(res) == res # Succeeded

\* line 371: a required title that did not install stops its dependent
RequiredTitleFailed(res) == res # Succeeded

\* The return of InstallTitleFromNUS with value res from the innermost of the
\* activations stk: lines 370-376 in a dependent title (which returns res in
\* turn, or goes on to ImportTitleInit), lines 306-311 in DoOnlineUpdate.
RECURSIVE Unwind(_, _)
Unwind(stk, res) ==
  IF Len(stk) = 1
    THEN IF Aborts(res)
           THEN [stack |-> <<>>, pc |-> "return", result |-> res]
           ELSE [stack |-> <<>>, pc |-> "after", result |-> NoResult]
    ELSE LET callers == SubSeq(stk, 1, Len(stk) - 1)
         IN IF RequiredTitleFailed(res)
              THEN Unwind(callers, res)
              ELSE [stack |-> [callers EXCEPT ![Len(callers)].pc = "init"],
                    pc |-> "install", result |-> NoResult]

ReturnFromInstall(res) ==
  LET u == Unwind(stack, res)
  IN stack' = u.stack /\ pc' = u.pc /\ result' = u.result
Continue(f) == SetTop(f) /\ UNCHANGED <<pc, result>>

nusFrame == <<op, response, download, esVars, flag, cache_clears, titles, processed,
              updated_titles, wad, entry_flag>>

\* an install that does not look at the updated-set
AlreadyUpdated_Never(title) == FALSE

\* line 333, second operand
AlreadyUpdated(title) == title.id \in updated_titles

\* lines 329-334: boot2 is ignored; ShouldInstallTitle and the updated-set
\* decide whether the title is skipped
NUS_Entry ==
  /\ At("entry")
  /\ IF Top.title.id = BOOT2
       THEN /\ ReturnFromInstall(Succeeded)
            /\ UNCHANGED history
       ELSE /\ Log("ShouldInstallTitle", Top.title.id, Top.title.version,
                   ShouldInstallTitle(Top.title))
            /\ IF ~ShouldInstallTitle(Top.title) \/ AlreadyUpdated(Top.title)
                 THEN ReturnFromInstall(Succeeded)
                 ELSE Continue([Top EXCEPT !.pc = "ticket"])
  /\ UNCHANGED nusFrame

\* lines 338-344: DownloadTicket; an absent or undersized response is empty
NUS_DownloadTicket ==
  /\ At("ticket")
  /\ \E ok \in BOOLEAN :
       /\ Log("DownloadTicket", Top.title.id, Top.title.version, ok)
       /\ IF ok THEN Continue([Top EXCEPT !.pc = "import_ticket"])
                ELSE ReturnFromInstall(DownloadFailed)
  /\ UNCHANGED nusFrame

\* lines 346-353: es->ImportTicket
NUS_ImportTicket ==
  /\ At("import_ticket")
  /\ \E ret \in ReturnCodes :
       /\ Log("ImportTicket", Top.title.id, ret, ret >= 0)
       /\ IF ret < 0 THEN ReturnFromInstall(ImportFailed)
                     ELSE Continue([Top EXCEPT !.pc = "tmd"])
  /\ UNCHANGED nusFrame

\* lines 355-364: DownloadTMD; a valid TMD names its required IOS
NUS_DownloadTMD ==
  /\ At("tmd")
  /\ \/ /\ Log("DownloadTMD", Top.title.id, Top.title.version, FALSE)
        /\ ReturnFromInstall(DownloadFailed)
     \/ \E ios \in IosChoices :
          /\ Log("DownloadTMD", Top.title.id, Top.title.version, TRUE)
          /\ Continue([Top EXCEPT !.pc = "prereq", !.ios_id = ios])
  /\ UNCHANGED nusFrame

\* a check that asks for the required title when it is already installed
NeedsRequiredTitle_Installed(ios_id) ==
  /\ ios_id # NoIOS
  /\ IsTitleType(ios_id, TitleTypeSystem)
  /\ IsValid(FindInstalledTMD(ios_id))

\* lines 365-367: the required system title is imported first when it is a
\* System title that has no installed TMD
NeedsRequiredTitle(ios_id) ==
  /\ ios_id # NoIOS
  /\ IsTitleType(ios_id, TitleTypeSystem)
  /\ ~IsValid(FindInstalledTMD(ios_id))

\* lines 363-370: the recursive call InstallTitleFromNUS(prefix_url, {ios_id, 0})
NUS_RequiredTitle ==
  /\ At("prereq")
  /\ IF NeedsRequiredTitle(Top.ios_id)
       THEN /\ Len(stack) < MaxDepth
            /\ stack' = Append([stack EXCEPT ![Len(stack)].pc = "prereq_wait"],
                                Frame([id |-> Top.ios_id, version |-> 0]))
       ELSE SetTop([Top EXCEPT !.pc = "init"])
  /\ UNCHANGED <<nusFrame, pc, result, history>>

\* lines 379-388: es->ImportTitleInit opens the context; the stored contents
\* are read once before the content loop
NUS_ImportTitleInit ==
  /\ At("init")
  /\ \E ret \in ReturnCodes :
       /\ Log("ImportTitleInit", Top.title.id, ret, ret >= 0)
       /\ IF ret < 0
            THEN ReturnFromInstall(ImportFailed)
            ELSE Continue([Top EXCEPT !.pc = "contents", !.context = "open",
                                      !.ios_id = NoIOS,
                                      !.stored_contents = GetStoredContents(Top.title.id)])
  /\ UNCHANGED nusFrame

\* where the content lambda of lines 389-422 goes when a step fails
ContentFailed(f, kind) == [f EXCEPT !.pc = "final", !.import_result = kind]

\* a loop that skips nothing
IsAlreadyInstalled_Never(stored_contents, cid) == FALSE

\* lines 392-395: the content id is among the stored contents
IsAlreadyInstalled(stored_contents, cid) == cid \in stored_contents

\* lines 390-399 and 421: next content entry, skipping what is already stored
NUS_NextContent ==
  /\ At("contents")
  /\ SetTop(IF Top.ci > NumContents THEN [Top EXCEPT !.pc = "final"]
            ELSE IF IsAlreadyInstalled(Top.stored_contents, Top.ci)
              THEN [Top EXCEPT !.ci = @ + 1]
            ELSE [Top EXCEPT !.pc = "begin"])
  /\ UNCHANGED <<nusFrame, pc, result, history>>

\* lines 401-405
NUS_ImportContentBegin ==
  /\ At("begin")
  /\ \E ret \in {IPC_SUCCESS, ES_EINVAL} :
       /\ Log("ImportContentBegin", Top.title.id, Top.ci, ret >= 0)
       /\ SetTop(IF ret < 0 THEN ContentFailed(Top, ImportFailed)
                            ELSE [Top EXCEPT !.pc = "fetch"])
  /\ UNCHANGED <<nusFrame, pc, result>>

\* lines 407-412
NUS_DownloadContent ==
  /\ At("fetch")
  /\ \E data \in BOOLEAN :
       /\ Log("DownloadContent", Top.title.id, Top.ci, data)
       /\ SetTop(IF ~data THEN ContentFailed(Top, DownloadFailed)
                          ELSE [Top EXCEPT !.pc = "data"])
  /\ UNCHANGED <<nusFrame, pc, result>>

\* lines 414-419, first operand
NUS_ImportContentData ==
  /\ At("data")
  /\ \E ret \in {IPC_SUCCESS, ES_EINVAL} :
       /\ Log("ImportContentData", Top.title.id, Top.ci, ret >= 0)
       /\ SetTop(IF ret < 0 THEN ContentFailed(Top, ImportFailed)
                            ELSE [Top EXCEPT !.pc = "end"])
  /\ UNCHANGED <<nusFrame, pc, result>>

\* lines 414-419, second operand
NUS_ImportContentEnd ==
  /\ At("end")
  /\ \E ret \in {IPC_SUCCESS, ES_EINVAL} :
       /\ Log("ImportContentEnd", Top.title.id, Top.ci, ret >= 0)
       /\ SetTop(IF ret < 0 THEN ContentFailed(Top, ImportFailed)
                            ELSE [Top EXCEPT !.pc = "contents", !.ci = @ + 1])
  /\ UNCHANGED <<nusFrame, pc, result>>

\* ES: a committed import installs the TMD and all of its contents
ES_Commit(title) ==
  /\ installed' = [installed EXCEPT ![title.id] = ServedVersion(title.version)]
  /\ stored' = [stored EXCEPT ![title.id] = ContentIds]

\* a finalize that commits whatever the content loop returned
FinalizeCall_AlwaysDone(all_contents_imported) == "ImportTitleDone"

\* a finalize that never commits
FinalizeCall_AlwaysCancel(all_contents_imported) == "ImportTitleCancel"

\* lines 425-426 (and 90-91): which finalize call is made
FinalizeCall(all_contents_imported) ==
  IF all_contents_imported THEN "ImportTitleDone" ELSE "ImportTitleCancel"

\* a finalize whose return code is not read
FinalizeResult_IgnoreRet(import_result, ret) == import_result

\* lines 425-436: the value returned after the finalize call returned ret
FinalizeResult(import_result, ret) ==
  IF ret < 0 THEN ImportFailed ELSE import_result

\* lines 423-437: the finalize call, the updated-set and the return
NUS_Finalize ==
  /\ At("final")
  /\ LET all_contents_imported == Top.import_result = Succeeded
         call == FinalizeCall(all_contents_imported)
     IN \E ret \in {IPC_SUCCESS, ES_EINVAL} :
          LET res == FinalizeResult(Top.import_result, ret)
          IN /\ Log(call, Top.title.id, ret, ret >= 0)
             /\ IF call = "ImportTitleDone" /\ ret >= 0
                  THEN ES_Commit(Top.title)
                  ELSE UNCHANGED esVars
             /\ updated_titles' = IF res = Succeeded
                                    THEN updated_titles \cup {Top.title.id}
                                    ELSE updated_titles
             /\ ReturnFromInstall(res)
  /\ UNCHANGED <<op, response, download, flag, cache_clears, titles, processed, wad, entry_flag>>

\* ------------------------------------------------------- DoOnlineUpdate
\* lines 292-294
Upd_GetSystemTitles ==
  /\ op = "update" /\ pc = "start"
  /\ LET info == GetSystemTitles(response)
     IN /\ titles' = info.titles
        /\ IF info.titles = <<>>
             THEN pc' = "return" /\ result' = ServerFailed
             ELSE pc' = "loop" /\ UNCHANGED result
  /\ UNCHANGED <<op, response, download, esVars, flag, cache_clears, history, processed,
                 updated_titles, stack, wad, entry_flag>>

\* a callback whose return value is not read
CallbackCancels_Ignored(go) == FALSE

\* lines 303-304: a false return value of the callback cancels the run
CallbackCancels(go) == ~go

\* lines 301-306: the callback before a title; false cancels the run
Upd_CallbackBefore ==
  /\ op = "update" /\ pc = "loop"
  /\ processed < Len(titles)
  /\ LET title == titles[processed + 1]
     IN \E go \in BOOLEAN :
          /\ Log("callback", title.id, <<processed, Len(titles)>>, go)
          /\ processed' = processed + 1
          /\ IF CallbackCancels(go)
               THEN pc' = "return" /\ result' = Cancelled /\ UNCHANGED stack
               ELSE pc' = "install" /\ stack' = <<Frame(title)>> /\ UNCHANGED result
  /\ UNCHANGED <<op, response, download, esVars, flag, cache_clears, titles, updated_titles, wad,
                 entry_flag>>

\* a callback after the title that can cancel the run
AfterCallbackCancels_Checked(go) == ~go

\* line 313: the return value of the callback after a title is discarded
AfterCallbackCancels(go) == FALSE

\* line 313: the callback after a title
Upd_CallbackAfter ==
  /\ op = "update" /\ pc = "after"
  /\ \E go \in BOOLEAN :
       /\ Log("callback_after", titles[processed].id,
              <<processed, Len(titles)>>, go)
       /\ IF AfterCallbackCancels(go)
            THEN pc' = "return" /\ result' = Cancelled
            ELSE pc' = "loop" /\ UNCHANGED result
  /\ UNCHANGED <<op, response, download, esVars, flag, cache_clears, titles, processed,
                 updated_titles, stack, wad, entry_flag>>

\* lines 316-322
CompletedResult(updated) == IF updated = {} THEN AlreadyUpToDate ELSE Succeeded

Upd_Complete ==
  /\ op = "update" /\ pc = "loop"
  /\ processed = Len(titles)
  /\ pc' = "return"
  /\ result' = CompletedResult(updated_titles)
  /\ UNCHANGED <<op, response, download, esVars, flag, cache_clears, history, titles, processed,
                 updated_titles, stack, wad, entry_flag>>

\* lines 491-497: the public DoOnlineUpdate clears the cache and returns
Upd_ClearCache ==
  /\ op = "update" /\ pc = "return"
  /\ pc' = "done"
  /\ cache_clears' = cache_clears + 1
  /\ UNCHANGED <<op, response, download, esVars, flag, history, titles, processed, updated_titles,
                 stack, result, wad, entry_flag>>

NextUpdate ==
  \/ Upd_GetSystemTitles \/ Upd_CallbackBefore
  \/ Upd_CallbackAfter \/ Upd_Complete \/ Upd_ClearCache
  \/ NUS_Entry \/ NUS_DownloadTicket \/ NUS_ImportTicket \/ NUS_DownloadTMD
  \/ NUS_RequiredTitle \/ NUS_ImportTitleInit
  \/ NUS_NextContent \/ NUS_ImportContentBegin \/ NUS_DownloadContent
  \/ NUS_ImportContentData \/ NUS_ImportContentEnd \/ NUS_Finalize

\* ------------------------------------------------------------ InstallWAD
WadAt(p) == op = "wad" /\ wad.pc = p
wadFrame == <<op, response, download, cache_clears, titles, pc, processed, updated_titles, stack,
              entry_flag>>

\* lines 43-56: an invalid WAD is rejected; otherwise the flag is saved
Wad_Open ==
  /\ WadAt("start")
  /\ \E valid \in BOOLEAN :
       IF ~valid
         THEN wad' = [wad EXCEPT !.pc = "done"] /\ result' = "false"
         ELSE wad' = [wad EXCEPT !.pc = "ticket", !.checks_enabled = flag]
              /\ UNCHANGED result
  /\ UNCHANGED <<wadFrame, esVars, flag, history>>

\* line 57: es->ImportTicket, first operand of the loop condition
Wad_ImportTicket ==
  /\ WadAt("ticket")
  /\ wad.attempts < MaxAttempts
  /\ \E ret \in ReturnCodes :
       /\ Log("ImportTicket", WadTitle.id, ret, ret >= 0)
       /\ wad' = [wad EXCEPT !.ret = ret, !.attempts = @ + 1,
                              !.pc = IF ret < 0 THEN "retry" ELSE "init"]
  /\ UNCHANGED <<wadFrame, esVars, flag, result>>

\* a restore that leaves the flag as it is
RestoredFlag_Stale(checks_enabled, current) == current

\* lines 67 and 71: the saved value is written back to the flag
RestoredFlag(checks_enabled, current) == checks_enabled

\* lines 58 and 71: es->ImportTitleInit; leaving the loop restores the flag
Wad_ImportTitleInit ==
  /\ WadAt("init")
  /\ \E ret \in ReturnCodes :
       /\ Log("ImportTitleInit", WadTitle.id, ret, ret >= 0)
       /\ IF ret < 0
            THEN /\ wad' = [wad EXCEPT !.ret = ret, !.pc = "retry"]
                 /\ UNCHANGED flag
            ELSE /\ wad' = [wad EXCEPT !.ret = ret, !.pc = "contents",
                                        !.context = "open"]
                 /\ flag' = RestoredFlag(wad.checks_enabled, flag)
  /\ UNCHANGED <<wadFrame, esVars, result>>

\* line 60: the failure may be retried, before the prompt is asked
MayRetry(checks_enabled, ret) == checks_enabled /\ ret = IOSC_FAIL_CHECKVALUE

\* lines 60-70: the loop body
Wad_Retry ==
  /\ WadAt("retry")
  /\ IF MayRetry(wad.checks_enabled, wad.ret)
       THEN \E yes \in BOOLEAN :
              /\ Log("AskYesNo", WadTitle.id, wad.attempts, yes)
              /\ IF yes
                   THEN /\ flag' = FALSE
                        /\ wad' = [wad EXCEPT !.pc = "ticket", !.prompts = @ + 1]
                        /\ UNCHANGED result
                   ELSE /\ flag' = RestoredFlag(wad.checks_enabled, flag)
                        /\ wad' = [wad EXCEPT !.pc = "done", !.prompts = @ + 1]
                        /\ result' = "false"
       ELSE /\ flag' = RestoredFlag(wad.checks_enabled, flag)
            /\ wad' = [wad EXCEPT !.pc = "done"]
            /\ result' = "false"
            /\ UNCHANGED history
  /\ UNCHANGED <<wadFrame, esVars>>

\* lines 75-87: the loop over tmd.GetContents()
Wad_NextContent ==
  /\ WadAt("contents")
  /\ wad' = [wad EXCEPT !.pc = IF wad.ci > NumContents THEN "final" ELSE "begin"]
  /\ UNCHANGED <<wadFrame, esVars, flag, history, result>>

\* a content failure that returns from InstallWAD, skipping the finalize
WadContentFailed_Leak(w) == [w EXCEPT !.pc = "done", !.contents_imported = FALSE]

\* lines 82-85: a failed content ends the loop
WadContentFailed(w) == [w EXCEPT !.pc = "final", !.contents_imported = FALSE]

\* line 79
Wad_ImportContentBegin ==
  /\ WadAt("begin")
  /\ \E ret \in {IPC_SUCCESS, ES_EINVAL} :
       /\ Log("ImportContentBegin", WadTitle.id, wad.ci, ret >= 0)
       /\ wad' = IF ret < 0 THEN WadContentFailed(wad) ELSE [wad EXCEPT !.pc = "data"]
  /\ UNCHANGED <<wadFrame, esVars, flag, result>>

\* line 80
Wad_ImportContentData ==
  /\ WadAt("data")
  /\ \E ret \in {IPC_SUCCESS, ES_EINVAL} :
       /\ Log("ImportContentData", WadTitle.id, wad.ci, ret >= 0)
       /\ wad' = IF ret < 0 THEN WadContentFailed(wad) ELSE [wad EXCEPT !.pc = "end"]
  /\ UNCHANGED <<wadFrame, esVars, flag, result>>

\* line 81
Wad_ImportContentEnd ==
  /\ WadAt("end")
  /\ \E ret \in {IPC_SUCCESS, ES_EINVAL} :
       /\ Log("ImportContentEnd", WadTitle.id, wad.ci, ret >= 0)
       /\ wad' = IF ret < 0 THEN WadContentFailed(wad)
                            ELSE [wad EXCEPT !.pc = "contents", !.ci = @ + 1]
  /\ UNCHANGED <<wadFrame, esVars, flag, result>>

\* a cache that is cleared whatever the finalize call returned
WadClearsCache_Always(ret) == TRUE

\* lines 90-97: ClearCache is reached only when the finalize call succeeded
WadClearsCache(ret) == ~(ret < 0)

\* lines 90-98: finalize, then clear the cache and report success
Wad_Finalize ==
  /\ WadAt("final")
  /\ LET call == FinalizeCall(wad.contents_imported)
     IN \E ret \in {IPC_SUCCESS, ES_EINVAL} :
          /\ Log(call, WadTitle.id, ret, ret >= 0)
          /\ wad' = [wad EXCEPT !.pc = "done", !.fin = @ + 1,
                                 !.context = IF call = "ImportTitleDone"
                                               THEN "done" ELSE "cancelled"]
          /\ IF call = "ImportTitleDone" /\ ret >= 0
               THEN ES_Commit(WadTitle)
               ELSE UNCHANGED esVars
          /\ result' = IF ret < 0 THEN "false" ELSE "true"
          /\ cache_clears' = IF WadClearsCache(ret) THEN cache_clears + 1
                                                    ELSE cache_clears
  /\ UNCHANGED <<op, response, download, titles, pc, processed, updated_titles, stack,
                 entry_flag, flag>>

NextWAD ==
  \/ Wad_Open \/ Wad_ImportTicket \/ Wad_ImportTitleInit \/ Wad_Retry
  \/ Wad_NextContent \/ Wad_ImportContentBegin \/ Wad_ImportContentData
  \/ Wad_ImportContentEnd \/ Wad_Finalize

Next == NextUpdate \/ NextWAD

Spec == Init /\ [][Next]_vars

\* ------------------------------------------- DownloadTMD on its own
\* The download of one TMD and the test InstallTitleFromNUS makes on it,
\* for every response of up to MaxResponseSize bytes.
InitTMD ==
  /\ op = "tmd"
  /\ response = NoResponse
  /\ download \in [pc : {"request"}, response : TmdResponses,
                    tmd : {InvalidTMD(0)}]
  /\ installed = [t \in StoredIds |-> NotInstalled]
  /\ stored = [t \in StoredIds |-> {}]
  /\ flag = TRUE
  /\ entry_flag = TRUE
  /\ cache_clears = 0
  /\ history = [calls |-> EmptyBag, recent |-> <<>>]
  /\ titles = <<>>
  /\ pc = "install"
  /\ processed = 0
  /\ updated_titles = {}
  /\ stack = <<>>
  /\ result = NoResult
  /\ wad = InitWadLocals

tmdFrame == <<op, response, esVars, flag, cache_clears, history, titles, pc,
              processed, updated_titles, stack, wad, entry_flag>>

\* line 356: const auto tmd = DownloadTMD(prefix_url, title)
Tmd_Download ==
  /\ op = "tmd" /\ download.pc = "request"
  /\ download' = [download EXCEPT !.pc = "downloaded",
                                  !.tmd = DownloadTMD(download.response)]
  /\ UNCHANGED <<tmdFrame, result>>

\* lines 357-361: an invalid TMD returns DownloadFailed
Tmd_Check ==
  /\ op = "tmd" /\ download.pc = "downloaded"
  /\ download' = [download EXCEPT !.pc = "checked"]
  /\ result' = IF ~download.tmd.valid THEN DownloadFailed ELSE NoResult
  /\ UNCHANGED tmdFrame

NextTMD == Tmd_Download \/ Tmd_Check

SpecTMD == InitTMD /\ [][NextTMD]_vars

\* =================================================== history helpers
Count(k, t, ok) == CopiesIn(<<k, t, ok>>, history.calls)
Calls(k, t) == Count(k, t, TRUE) + Count(k, t, FALSE)
OkCalls(k, t) == Count(k, t, TRUE)
Finalizes(t) == Calls("ImportTitleDone", t) + Calls("ImportTitleCancel", t)
\* the number of calls of kind k, whatever the title and the outcome
Total(k) ==
  BagCardinality([e \in {x \in BagToSet(history.calls) : x[1] = k} |->
                    history.calls[e]])
Last(seq) == seq[Len(seq)]
Called == history.recent # <<>>
Returned == IF op = "wad" THEN wad.pc = "done" ELSE pc \in {"return", "done"}
OpenContexts(t) ==
  Cardinality({i \in DOMAIN stack : stack[i].context = "open" /\ stack[i].title.id = t})
  + (IF op = "wad" /\ wad.context = "open" /\ WadTitle.id = t THEN 1 ELSE 0)
Failures == {DownloadFailed, ImportFailed}
\* the failure kind that the two latest calls e (last) and d (before it) of
\* an install stand for
KindOf(d, e) ==
  IF e.k = "ImportTitleCancel" /\ e.ok
    THEN (IF d.k = "DownloadContent" THEN DownloadFailed ELSE ImportFailed)
    ELSE IF e.k \in {"DownloadTicket", "DownloadTMD"} THEN DownloadFailed
    ELSE ImportFailed
\* the latest call ended an install in failure
EndsInFailure(e) ==
  \/ e.k = "ImportTitleCancel"
  \/ ~e.ok /\ e.k \notin {"ShouldInstallTitle", "callback", "callback_after"}

\* ================================================================== C1
\* C1: in both installers a context is opened only by a successful
\* ImportTitleInit, every opened context gets exactly one ImportTitleDone or
\* ImportTitleCancel, and an installer never returns with a context that is
\* still open.
C1_ContextFinalizedOnce ==
  /\ \A i \in DOMAIN stack :
       stack[i].context = "open" <=>
         stack[i].pc \in {"contents", "begin", "fetch", "data", "end", "final"}
  /\ wad.fin = (IF wad.context \in {"done", "cancelled"} THEN 1 ELSE 0)
  /\ wad.pc = "done" => wad.context # "open"
  /\ \A t \in StoredIds :
       OkCalls("ImportTitleInit", t) = Finalizes(t) + OpenContexts(t)
  /\ Returned => \A t \in StoredIds : OpenContexts(t) = 0

\* a run that committed one title and cancelled another has returned
C1_Witness ==
  /\ op = "update" /\ pc = "return"
  /\ Total("ImportTitleDone") > 0
  /\ Total("ImportTitleCancel") > 0

\* ================================================================== C2
\* C2: InstallWAD attempts the ImportTicket + ImportTitleInit sequence at most
\* twice and shows the confirmation prompt at most once per call.
C2_RetryBoundedToOne ==
  op = "wad" => /\ wad.attempts <= 2
                /\ wad.prompts <= 1

\* ================================================================== C3
\* C3: when InstallWAD returns, the signature-check flag has the value it had
\* at entry; it differs from that value only between a confirmed downgrade
\* and the end of the ticket/init loop.
C3_FlagRestored ==
  op = "wad" =>
    /\ wad.pc = "done" => flag = entry_flag
    /\ flag # entry_flag =>
         /\ entry_flag /\ ~flag
         /\ wad.pc \in {"ticket", "init", "retry"}
         /\ OkCalls("AskYesNo", WadTitle.id) > 0

\* InstallWAD returned after a confirmed downgrade, the flag being on again
C3_Witness ==
  /\ op = "wad" /\ wad.pc = "done" /\ entry_flag /\ flag
  /\ OkCalls("AskYesNo", WadTitle.id) > 0

\* ================================================================== C4
\* C4: a false return of the callback before the N-th title ends the run with
\* Cancelled at once: nothing is called after it, and the titles committed
\* before it stay installed.
C4_CancelStopsRun ==
  (\E t \in StoredIds : Count("callback", t, FALSE) > 0) =>
    /\ Last(history.recent).k = "callback"
    /\ ~Last(history.recent).ok
    /\ Last(history.recent).a = <<processed - 1, Len(titles)>>
    /\ Last(history.recent).t = titles[processed].id
    /\ result = Cancelled
    /\ pc \in {"return", "done"}
    /\ stack = <<>>
    /\ \A t \in StoredIds :
         OkCalls("ImportTitleDone", t) > 0 =>
           IsValid(installed[t]) /\ stored[t] = ContentIds

\* the run was cancelled at the second title after the first was committed
C4_Witness ==
  /\ result = Cancelled /\ processed = 2
  /\ \E t \in StoredIds : OkCalls("ImportTitleDone", t) > 0

\* ================================================================== C5
\* C5 as stated: ImportTitleInit of a title is never called while its nonzero
\* required-runtime id has no installed TMD (the runtime was committed first).
C5_AnyRequiredIdFirst ==
  \A i \in DOMAIN stack :
    (stack[i].pc = "init" /\ stack[i].ios_id # NoIOS) =>
      IsValid(installed[stack[i].ios_id])

IsRequiredRuntime(ios_id) ==
  ios_id # NoIOS /\ IsTitleType(ios_id, TitleTypeSystem) /\ ios_id # BOOT2

C5_StateOK ==
  /\ \A i \in DOMAIN stack :
       (stack[i].pc = "init" /\ IsRequiredRuntime(stack[i].ios_id)) =>
         IsValid(installed[stack[i].ios_id])
  /\ \A i \in DOMAIN stack : i > 1 =>
       /\ stack[i].title = [id |-> stack[i - 1].ios_id, version |-> 0]
       /\ stack[i - 1].pc = "prereq_wait"
       /\ stack[i - 1].context = "none"

\* the return of a required title to its dependent title
C5_ReturnOK ==
  (Len(stack) >= 2 /\ Len(stack') < Len(stack)) =>
    LET req == Top
        e == Last(history'.recent)
        failed == history' # history /\ EndsInFailure(e)
    IN IF failed
         THEN /\ stack' = <<>>
              /\ pc' = "return"
              /\ result' = KindOf(history'.recent[Len(history'.recent) - 1], e)
              /\ \A n \in 1..(Len(stack) - 1) : stack[n].context = "none"
         ELSE /\ Len(stack') = Len(stack) - 1
              /\ Last(stack').pc = "init"
              /\ req.title.id # BOOT2 =>
                   /\ e.k = "ImportTitleDone" /\ e.ok /\ e.t = req.title.id
                   /\ IsValid(installed'[req.title.id])

\* C5 (amended): a required-runtime id that is nonzero, of the System title
\* type, not the boot-loader id and not installed is installed with version 0
\* and committed before the dependent title's ImportTitleInit; a failed
\* prerequisite returns its failure kind through the dependent title, whose
\* context is never opened.
C5_RequiredSystemTitleFirst == []C5_StateOK /\ [][C5_ReturnOK]_vars

\* the dependent title is about to call ImportTitleInit after IOS58 was
\* committed as its prerequisite
C5_Witness ==
  /\ Len(stack) = 1 /\ Top.pc = "init" /\ Top.ios_id = IOS58
  /\ Top.title.id = SYSTEM_MENU
  /\ OkCalls("ImportTitleDone", IOS58) > 0

\* ================================================================== C6
\* C6: the titles are processed in list order, and a title id that is in the
\* updated-set gets no further ImportTitleInit or ImportTitleDone in the run.
C6_NoTitleInstalledTwice ==
  op = "update" =>
    /\ Total("callback") = processed
    /\ \A i \in DOMAIN history.recent :
         history.recent[i].k = "callback" =>
           history.recent[i].t = titles[history.recent[i].a[1] + 1].id
    /\ \A i \in DOMAIN stack :
         stack[i].pc = "init" => stack[i].title.id \notin updated_titles
    /\ \A t \in StoredIds : Calls("ImportTitleDone", t) <= 1

\* ================================================================== C7
C7_StateOK ==
  result \in Failures =>
    /\ pc \in {"return", "done"}
    /\ stack = <<>>
    /\ Total("callback") = processed
    /\ Total("callback_after") = processed - 1
    /\ EndsInFailure(Last(history.recent))
    /\ result = KindOf(history.recent[Len(history.recent) - 1], Last(history.recent))

\* the step in which the install of a listed title returns
C7_FailureReturned ==
  (op = "update" /\ pc = "install" /\ pc' # "install") =>
    IF history' # history /\ EndsInFailure(Last(history'.recent))
      THEN pc' = "return" /\ result' \in Failures /\ stack' = <<>>
      ELSE pc' = "after" /\ result' = NoResult /\ stack' = <<>>

C7_NothingAfterReturn ==
  (op = "update" /\ pc \in {"return", "done"}) =>
    UNCHANGED <<history, processed, installed, stored, updated_titles, result, stack>>

\* C7: the first title whose install does not return Succeeded ends the run
\* with that failure kind; no later title is processed and no callback, fetch
\* or import call follows.
C7_FirstFailureAborts ==
  []C7_StateOK /\ [][C7_FailureReturned]_vars /\ [][C7_NothingAfterReturn]_vars

\* the first of two titles failed to download and the run is over
C7_Witness ==
  /\ pc = "done" /\ result = DownloadFailed
  /\ processed = 1 /\ Len(titles) = 2

\* ================================================================== C8
Committed == {t \in StoredIds : OkCalls("ImportTitleDone", t) > 0}

\* C8: a run that went through the whole list returns AlreadyUpToDate iff
\* nothing was committed and Succeeded iff something was; a title id is in
\* the updated-set only if its ImportTitleDone succeeded in this run.
C8_CompletedResult ==
  op = "update" =>
    /\ updated_titles \subseteq Committed
    /\ (pc \in {"return", "done"}
          /\ result \notin {ServerFailed, Cancelled, DownloadFailed, ImportFailed}) =>
         /\ processed = Len(titles)
         /\ result \in {AlreadyUpToDate, Succeeded}
         /\ result = AlreadyUpToDate <=> (updated_titles = {} /\ Committed = {})
         /\ result = Succeeded <=> Committed # {}

\* a run of two titles succeeded with one title committed
C8_Witness ==
  /\ pc = "done" /\ result = Succeeded
  /\ Len(titles) = 2 /\ Cardinality(updated_titles) = 1

\* ================================================================== C9
\* C9: ShouldInstallTitle is false iff the title has an installed TMD whose
\* version is at least the requested one and all of whose declared contents
\* are stored; otherwise it is true.
C9_ShouldInstallTitle ==
  (Called /\ Last(history.recent).k = "ShouldInstallTitle") =>
    LET e == Last(history.recent)
        version == installed[e.t]
        present == Cardinality(stored[e.t])
    IN /\ ~e.ok <=> (version # NotInstalled /\ version >= e.a /\ present = NumContents)
       /\ version = NotInstalled => e.ok
       /\ version < e.a => e.ok
       /\ present < NumContents => e.ok

\* a title installed at the requested version with a content missing
C9_Witness ==
  /\ Called /\ Last(history.recent).k = "ShouldInstallTitle"
  /\ Last(history.recent).ok
  /\ installed[Last(history.recent).t] >= Last(history.recent).a
  /\ installed[Last(history.recent).t] # NotInstalled

\* ================================================================= C10
FetchFailures ==
  {i \in DOMAIN history.recent :
     history.recent[i].k = "DownloadContent" /\ ~history.recent[i].ok}
CancelFollows(i) ==
  i < Len(history.recent) =>
    /\ Len(history.recent) = i + 1
    /\ history.recent[i + 1].k = "ImportTitleCancel"
    /\ history.recent[i + 1].t = history.recent[i].t
NotUpdatedBy(i) ==
  history.recent[i].t \in updated_titles =>
    OkCalls("ImportTitleDone", history.recent[i].t) > 0
ReturnsKind(i, kind) ==
  IF i < Len(history.recent)
    THEN pc \in {"return", "done"} /\ stack = <<>> /\ result = kind
    ELSE At("final") /\ result = NoResult

\* C10 as stated: after a content fetch that returned no data the context is
\* cancelled, the title is not added to the updated-set, and the install and
\* the run return DownloadFailed.
C10_FetchFailureDownloadFailed ==
  \A i \in FetchFailures :
    CancelFollows(i) /\ NotUpdatedBy(i) /\ ReturnsKind(i, DownloadFailed)

\* C10 (amended): ... and the install and the run return DownloadFailed when
\* ImportTitleCancel succeeds and ImportFailed when ImportTitleCancel fails.
C10_FetchFailureCancelled ==
  \A i \in FetchFailures :
    /\ CancelFollows(i)
    /\ NotUpdatedBy(i)
    /\ ReturnsKind(i, IF Last(history.recent).ok THEN DownloadFailed ELSE ImportFailed)

\* the fetch of the second content failed after the first was imported, the
\* context was cancelled and the run returned DownloadFailed
C10_Witness ==
  /\ pc = "return" /\ result = DownloadFailed
  /\ Len(history.recent) >= 4
  /\ LET n == Len(history.recent)
         r == history.recent
     IN /\ r[n].k = "ImportTitleCancel" /\ r[n].ok
        /\ r[n - 1].k = "DownloadContent" /\ r[n - 1].a = 2
        /\ r[n - 2].k = "ImportContentBegin"
        /\ r[n - 3].k = "ImportContentEnd" /\ r[n - 3].ok
        /\ r[n - 3].a = 1 /\ r[n - 3].t = r[n].t

\* ================================================================= C11
EmptyCatalog == ~IsWellFormed(response) \/ response.titles = <<>>

\* C11: DoOnlineUpdate returns ServerFailed, with no callback, fetch or
\* import call made, whenever the catalog client yields an empty list: no
\* HTTP body, unparsable body, no GetSystemUpdateResponse node, nonzero
\* ErrorCode, empty content prefix URL or no TitleVersion entry; otherwise
\* the run works on the list of the answer.
C11_EmptyListServerFailed ==
  (op = "update" /\ pc # "start") =>
    /\ EmptyCatalog =>
         /\ result = ServerFailed
         /\ pc \in {"return", "done"}
         /\ history.calls = EmptyBag /\ history.recent = <<>>
         /\ processed = 0 /\ stack = <<>> /\ updated_titles = {}
         /\ titles = <<>>
    /\ ~EmptyCatalog => (result # ServerFailed /\ titles = response.titles)

\* the answer carried a title but a nonzero ErrorCode
C11_Witness ==
  /\ op = "update" /\ pc = "done" /\ result = ServerFailed
  /\ response.http /\ response.xml /\ response.node /\ response.url # ""
  /\ response.code # 0 /\ response.titles # <<>>

\* ================================================================= C12
\* C12: the cache is cleared only at the end of an operation and never while
\* a context is open: InstallWAD clears it once exactly when it returns
\* success, the public DoOnlineUpdate clears it once after the run has
\* returned, whatever the result.
C12_CacheClearedAtEnd ==
  /\ cache_clears \in {0, 1}
  /\ cache_clears = 1 =>
       /\ Returned
       /\ \A t \in StoredIds :
            OpenContexts(t) = 0 /\ OkCalls("ImportTitleInit", t) = Finalizes(t)
  /\ op = "wad" => (cache_clears = 1 <=> result = "true")
  /\ op = "update" =>
       /\ cache_clears = 1 <=> pc = "done"
       /\ pc \in {"return", "done"} <=> result # NoResult
       /\ result \in {NoResult, Succeeded, AlreadyUpToDate, Cancelled,
                      ServerFailed, DownloadFailed, ImportFailed}

\* InstallWAD returned failure after ImportTitleDone failed: no clear
C12_Witness ==
  /\ op = "wad" /\ wad.pc = "done" /\ result = "false"
  /\ Count("ImportTitleDone", WadTitle.id, FALSE) = 1
  /\ cache_clears = 0

\* ================================================================= C13
IsFinalize(e) == e.k \in {"ImportTitleDone", "ImportTitleCancel"}
ContentCalls ==
  {"ImportContentBegin", "DownloadContent", "ImportContentData", "ImportContentEnd"}

\* C13: InstallTitleFromNUS calls ImportTitleDone iff every content entry was
\* imported or skipped, ImportTitleCancel otherwise; a failed finalize call
\* makes the install return ImportFailed, after a failed commit and after a
\* failed cancel alike, and the title is not added to the updated-set.
C13_FinalizeRule ==
  op = "update" =>
    /\ \A i \in DOMAIN history.recent :
         (i > 1 /\ IsFinalize(history.recent[i])) =>
           LET e == history.recent[i]
               d == history.recent[i - 1]
           IN /\ d.t = e.t
              /\ d.k \in ContentCalls \cup {"ImportTitleInit"}
              /\ e.k = "ImportTitleDone" <=>
                   (d.ok /\ d.k \in {"ImportTitleInit", "ImportContentEnd"})
              /\ e.k = "ImportTitleCancel" <=> (~d.ok /\ d.k \in ContentCalls)
    /\ (Called /\ IsFinalize(Last(history.recent))) =>
         LET e == Last(history.recent)
         IN /\ ~e.ok =>
                 /\ result = ImportFailed
                 /\ pc \in {"return", "done"} /\ stack = <<>>
            /\ (e.k = "ImportTitleCancel" /\ e.ok) => result \in Failures
            /\ (e.k = "ImportTitleDone" /\ e.ok) =>
                 (result \notin Failures /\ e.t \in updated_titles)
            /\ e.t \in updated_titles => OkCalls("ImportTitleDone", e.t) > 0

\* the commit of a title whose contents were all imported failed
C13_Witness ==
  /\ op = "update" /\ pc = "return" /\ result = ImportFailed
  /\ Len(history.recent) > 1
  /\ Last(history.recent).k = "ImportTitleDone" /\ ~Last(history.recent).ok
  /\ history.recent[Len(history.recent) - 1].k = "ImportContentEnd"
  /\ Last(history.recent).t \notin updated_titles

\* ================================================================= C14
\* consecutive calls of the content loop
C14_StateOK ==
  op = "update" =>
    \A i \in 1..(Len(history.recent) - 1) :
      LET e == history.recent[i]
          n == history.recent[i + 1]
          Same(k) == n.k = k /\ n.t = e.t /\ n.a = e.a
          After(k) == e.k = k /\ e.ok /\ e.t = n.t /\ e.a = n.a
      IN /\ (e.k = "ImportContentBegin" /\ e.ok) => Same("DownloadContent")
         /\ (e.k = "DownloadContent" /\ e.ok) => Same("ImportContentData")
         /\ (e.k = "ImportContentData" /\ e.ok) => Same("ImportContentEnd")
         /\ (e.k = "ImportContentEnd" /\ e.ok) =>
              \/ n.k = "ImportContentBegin" /\ n.t = e.t /\ n.a > e.a
              \/ n.k = "ImportTitleDone" /\ n.t = e.t
         /\ (e.k \in ContentCalls /\ ~e.ok) =>
              (n.k = "ImportTitleCancel" /\ n.t = e.t)
         /\ n.k = "ImportContentBegin" =>
              /\ e.ok /\ e.t = n.t
              /\ e.k \in {"ImportTitleInit", "ImportContentEnd"}
         /\ n.k = "DownloadContent" => After("ImportContentBegin")
         /\ n.k = "ImportContentData" => After("DownloadContent")
         /\ n.k = "ImportContentEnd" => After("ImportContentData")

\* the entries passed over between two calls are exactly the stored ones
C14_SkipOK ==
  (op = "update" /\ history' # history
     /\ Last(history'.recent).k \in {"ImportContentBegin", "ImportTitleDone"}) =>
    LET e == Last(history'.recent)
        d == Last(history.recent)
        from == IF d.k = "ImportContentEnd" THEN d.a + 1 ELSE 1
        upto == IF e.k = "ImportContentBegin" THEN e.a - 1 ELSE NumContents
    IN /\ \A c \in from..upto : c \in stored[e.t]
       /\ e.k = "ImportContentBegin" =>
            (e.a \in ContentIds /\ e.a \notin stored[e.t] /\ e.a >= from)

\* C14: the content entries are handled in list order; an entry already
\* stored is skipped without any call; every other entry goes through begin,
\* fetch, data, end in that order, the next begin only after the previous end
\* succeeded; the first failure stops the loop.
C14_ContentLoopOrder == []C14_StateOK /\ [][C14_SkipOK]_vars

\* the first content was stored and skipped, the second has been begun
C14_Witness ==
  /\ At("fetch") /\ Top.ci = 2 /\ 1 \in stored[Top.title.id]
  /\ Len(history.recent) > 1
  /\ Last(history.recent).k = "ImportContentBegin"
  /\ history.recent[Len(history.recent) - 1].k = "ImportTitleInit"

\* ================================================================= C15
\* C15: when ImportTitleInit of InstallTitleFromNUS fails on the signature
\* check while signature checks are enabled, the failure is not returned as
\* ImportFailed straight away: the prompt is shown and ticket import and
\* title init are retried once with checks disabled.
C15_PlannerRetriesSignatureFailure ==
  (op = "update" /\ flag /\ Called
     /\ Last(history.recent).k = "ImportTitleInit"
     /\ Last(history.recent).a = IOSC_FAIL_CHECKVALUE) =>
    result # ImportFailed

\* ================================================================= C16
\* C16: ImportTicket is not called for a title until its metadata fetch has
\* succeeded: a failed metadata fetch returns DownloadFailed with no import
\* call made for that title.
C16_FetchesBeforeImport ==
  op = "update" =>
    /\ (Called /\ Last(history.recent).k = "DownloadTMD"
          /\ ~Last(history.recent).ok) =>
         /\ result = DownloadFailed
         /\ Calls("ImportTicket", Last(history.recent).t) = 0
    /\ \A i \in DOMAIN history.recent :
         (i > 1 /\ history.recent[i].k = "ImportTicket") =>
           /\ history.recent[i - 1].k = "DownloadTMD"
           /\ history.recent[i - 1].ok
           /\ history.recent[i - 1].t = history.recent[i].t

\* ================================================================= C17
\* the step that enters InstallTitleFromNUS for a title that is to be skipped
C17_SkipOK ==
  (At("entry")
     /\ \/ Top.title.id = BOOT2
        \/ Top.title.id \in updated_titles
        \/ /\ history' # history
           /\ Last(history'.recent).k = "ShouldInstallTitle"
           /\ ~Last(history'.recent).ok) =>
    /\ UNCHANGED <<installed, stored, updated_titles, flag, processed, cache_clears>>
    /\ \/ history' = history
       \/ \E ok \in BOOLEAN :
            history'.calls =
              history.calls (+) SetToBag({<<"ShouldInstallTitle", Top.title.id, ok>>})
    /\ result' = NoResult
    /\ Len(stack') = Len(stack) - 1
    /\ IF Len(stack) = 1 THEN pc' = "after"
                         ELSE pc' = "install" /\ Last(stack').pc = "init"

\* C17: a skipped title leaves everything unchanged: for the boot-loader id,
\* for a title for which ShouldInstallTitle is false and for a title already
\* in the updated-set, InstallTitleFromNUS returns Succeeded with no fetch
\* and no import call, and the updated-set is unchanged.
C17_SkippedTitleUnchanged == [][C17_SkipOK]_vars

\* the second list entry needs an install by its version but was skipped
\* because the first entry had put its id into the updated-set
C17_Witness ==
  /\ op = "update" /\ pc = "after" /\ processed = 2
  /\ Last(history.recent).k = "ShouldInstallTitle"
  /\ Last(history.recent).ok
  /\ Last(history.recent).t \in updated_titles
  /\ Calls("ImportTitleInit", Last(history.recent).t) = 1

\* ================================================================= C18
IsCallback(e) == e.k \in {"callback", "callback_after"}

\* the callbacks made so far and their arguments
C18_StateOK ==
  op = "update" =>
    /\ Total("callback") = processed
    /\ Total("callback_after") \in {processed - 1, processed}
    /\ \A i \in DOMAIN history.recent :
         LET e == history.recent[i]
         IN /\ e.k = "callback" =>
                 /\ e.a[1] \in 0..(Len(titles) - 1) /\ e.a[2] = Len(titles)
                 /\ e.t = titles[e.a[1] + 1].id
            /\ e.k = "callback_after" =>
                 /\ e.a[1] \in 1..Len(titles) /\ e.a[2] = Len(titles)
                 /\ e.t = titles[e.a[1]].id
                 /\ i > 1 => ~EndsInFailure(history.recent[i - 1])
    /\ (Called /\ IsCallback(Last(history.recent))) =>
         LET e == Last(history.recent)
         IN /\ e.a[1] = (IF e.k = "callback" THEN processed - 1 ELSE processed)
            /\ Total("callback_after") =
                 (IF e.k = "callback" THEN processed - 1 ELSE processed)
    /\ result \in Failures => Total("callback_after") = processed - 1
    /\ result = Cancelled =>
         (Last(history.recent).k = "callback" /\ ~Last(history.recent).ok)

\* the step that invokes the callback
C18_BoundaryOK ==
  (op = "update" /\ history' # history /\ IsCallback(Last(history'.recent))) =>
    /\ stack = <<>>
    /\ \A t \in StoredIds : OkCalls("ImportTitleInit", t) = Finalizes(t)
    /\ Last(history'.recent).k = "callback_after" =>
         (pc = "after" /\ pc' = "loop" /\ result' = NoResult)

\* C18: the callback is invoked only at title boundaries of the server list,
\* never while a context is open nor inside a prerequisite install: with
\* (i, n, id) before the title at position i and, only if its processing
\* returned Succeeded, with (i+1, n, id) after it; the return value of the
\* call after the title never cancels the run.
C18_CallbackAtBoundaries == []C18_StateOK /\ [][C18_BoundaryOK]_vars

\* the callback after the first title returned false and the run went on to
\* the second title
C18_Witness ==
  /\ op = "update" /\ processed = 2 /\ pc = "install"
  /\ Count("callback_after", titles[1].id, FALSE) = 1
  /\ Total("ImportTitleDone") > 0

\* ================================================================= C19
\* C19: the recursion of InstallTitleFromNUS has bounded depth whatever the
\* metadata say, also when required-runtime ids form a cycle: no request
\* (title id, version) is entered again while an activation for the same
\* request is still waiting for it, so every run returns a result.
C19_RecursionBounded ==
  \A i, j \in DOMAIN stack : i < j => stack[i].title # stack[j].title

\* ================================================================= C20
\* contexts opened and not yet finalized, as the ES collaborator counts them
OpenCount ==
  Total("ImportTitleInit")
    - BagCardinality([e \in {x \in BagToSet(history.calls) :
                               x[1] = "ImportTitleInit" /\ ~x[3]} |->
                        history.calls[e]])
    - Total("ImportTitleDone") - Total("ImportTitleCancel")

\* C20: during a DoOnlineUpdate run at most one import context is open: a
\* prerequisite's context is opened and finalized before the dependent
\* title's ImportTitleInit, so contexts are never nested and no title id has
\* two open contexts.
C20_OneOpenContext ==
  op = "update" =>
    /\ OpenCount \in {0, 1}
    /\ Cardinality({i \in DOMAIN stack : stack[i].context = "open"}) = OpenCount
    /\ \A i \in DOMAIN stack : i < Len(stack) =>
         (stack[i].context = "none" /\ stack[i].pc = "prereq_wait")
    /\ \A t \in StoredIds : OpenContexts(t) <= 1

\* a prerequisite's context is open while its dependent title, which has no
\* context yet, waits for it
C20_Witness ==
  /\ op = "update" /\ Len(stack) = 2
  /\ Top.context = "open" /\ stack[1].context = "none"
  /\ OpenCount = 1

\* ================================================================= C21
\* C21: DownloadTMD yields an invalid TMD, which InstallTitleFromNUS reports
\* as DownloadFailed before any context is opened, for every response
\* shorter than the TMD header and for every response whose big-endian
\* 16-bit content count makes header + count * entry size exceed its length;
\* a valid TMD is the slice [0, header + count * entry size) of the
\* response and its certificates are the rest, both within the response.
C21_DownloadTMDBounds ==
  (op = "tmd" /\ download.pc # "request") =>
    LET r == download.response
        t == download.tmd
        count == r.hi * 256 + r.lo
        need == TMDHeaderSize + count * ContentSize
    IN /\ ~r.body => ~t.valid
       /\ r.size < TMDHeaderSize => ~t.valid
       /\ need > r.size => ~t.valid
       /\ t.read_end <= r.size
       /\ t.valid =>
            /\ t.tmd_begin = 0 /\ t.tmd_end = need
            /\ t.tmd_begin <= t.tmd_end /\ t.tmd_end <= r.size
            /\ t.certs_begin = t.tmd_end /\ t.certs_end = r.size
            /\ t.certs_begin <= t.certs_end
       /\ download.pc = "checked" =>
            /\ ~t.valid <=> result = DownloadFailed
            /\ t.valid <=> result = NoResult
            /\ history.calls = EmptyBag /\ stack = <<>>

\* a response that declares two contents and is one byte longer than its TMD
C21_Witness ==
  /\ op = "tmd" /\ download.pc = "checked" /\ download.tmd.valid
  /\ download.response.hi = 0 /\ download.response.lo = 2
  /\ download.tmd.tmd_end = TMDHeaderSize + 2 * ContentSize
  /\ download.response.size = download.tmd.tmd_end + 1
  /\ result = NoResult

====
